---- MODULE Spec2Model ----
(***************************************************************************)
(* Block allocation and storage layer of the virtual file system          *)
(* (src/src/block/mod.rs, BlockManager).                                   *)
(*                                                                         *)
(* The backing file is a sequence of bytes; Len(disk) is the file length.  *)
(* Offsets and block indices are 0-based as in the source, sequences are   *)
(* 1-based, so byte `off` of the file is disk[off + 1].                    *)
(***************************************************************************)
EXTENDS Integers, Sequences, FiniteSets, TLC

(* ------------------------------------------------------------------ *)
(* Sizes.  The source fixes BLOCK_SIZE = 4096 and TOTAL_BLOCKS = 1024; *)
(* the model scales both down and keeps the relation                   *)
(* BLOCK_SIZE >= 4 + TOTAL_BLOCKS of the source (4096 >= 1028), which  *)
(* decides how many blocks reach past the length set by set_len.       *)
(* ------------------------------------------------------------------ *)
BLOCK_SIZE == 8

TOTAL_BLOCKS == 3

\* offset of the occupancy bitmap: SeekFrom::Start(4)
BITMAP_OFFSET == 4

\* MAGIC_NUMBER = 0xDEADBEEF, kept as its two 16-bit halves (0xDEAD, 0xBEEF)
MAGIC_HI == 57005

MAGIC_LO == 48879

(* ------------------------------------------------------------------ *)
(* Option and io::Error values                                         *)
(* ------------------------------------------------------------------ *)
None == <<>>

Some(x) == <<x>>

Ok == [kind |-> "Ok", msg |-> ""]

ErrNoFreeBlocks == [kind |-> "Other", msg |-> "No free blocks available"]

ErrInvalidBlockIndex == [kind |-> "InvalidInput", msg |-> "Invalid block index"]

ErrDataTooLarge == [kind |-> "InvalidInput", msg |-> "Data exceeds block size"]

\* what seek or write_all returns when the operating system reports a failure
ErrOs == [kind |-> "Os", msg |-> "os error"]

\* what read_exact returns when the file ends before the buffer is full
ErrUnexpectedEof == [kind |-> "UnexpectedEof", msg |-> "failed to fill whole buffer"]

(* ------------------------------------------------------------------ *)
(* std::fs::File operations on the byte sequence                       *)
(* ------------------------------------------------------------------ *)
Max(a, b) == IF a >= b THEN a ELSE b

\* File::set_len on a file of content d: truncate or extend with zeros
set_len(d, n) == [k \in 1..n |-> IF k <= Len(d) THEN d[k] ELSE 0]

\* seek(Start(off)) then write_all(bytes): a write past the end extends the
\* file, the gap reads as zeros; writing no bytes changes nothing
WriteAt(d, off, bytes) ==
    IF Len(bytes) = 0 THEN d
    ELSE [k \in 1..Max(Len(d), off + Len(bytes)) |->
            IF k > off /\ k <= off + Len(bytes) THEN bytes[k - off]
            ELSE IF k <= Len(d) THEN d[k]
            ELSE 0]

\* seek(Start(off)) then read_exact of n bytes: fails when the file is short
ReadExactOk(d, off, n) == off + n <= Len(d)

ReadExactAt(d, off, n) == [k \in 1..n |-> d[off + k]]

to_le_bytes_reversed(hi, lo) == <<hi \div 256, hi % 256, lo \div 256, lo % 256>>

\* u32::to_le_bytes of the number whose halves are hi and lo
to_le_bytes(hi, lo) == <<lo % 256, lo \div 256, hi % 256, hi \div 256>>

(* ------------------------------------------------------------------ *)
(* BlockManager: pure parts                                            *)
(* ------------------------------------------------------------------ *)
\* the byte save_free_blocks writes for a flag: if b { 1 } else { 0 }
EncodeFlag(b) == IF b THEN 1 ELSE 0

DecodeFlag_nonzero(byte) == byte # 0

\* the flag load_free_blocks reads from a byte: b == 1
DecodeFlag(byte) == byte = 1

save_free_blocks_noop(d, fb) == d

\* BlockManager::save_free_blocks
save_free_blocks(d, fb) ==
    WriteAt(d, BITMAP_OFFSET, [k \in 1..Len(fb) |-> EncodeFlag(fb[k])])

load_free_blocks_inverted(d) ==
    [k \in 1..TOTAL_BLOCKS |-> ReadExactAt(d, BITMAP_OFFSET, TOTAL_BLOCKS)[k] = 0]

\* BlockManager::load_free_blocks (the Ok value; read_exact decides success)
load_free_blocks(d) ==
    [k \in 1..TOTAL_BLOCKS |->
        DecodeFlag(ReadExactAt(d, BITMAP_OFFSET, TOTAL_BLOCKS)[k])]

format_wipe(d) ==
    save_free_blocks(WriteAt(set_len(<<>>, Len(d)), 0, to_le_bytes(MAGIC_HI, MAGIC_LO)),
                     [k \in 1..TOTAL_BLOCKS |-> TRUE])

\* BlockManager::format
format(d) ==
    save_free_blocks(WriteAt(d, 0, to_le_bytes(MAGIC_HI, MAGIC_LO)),
                     [k \in 1..TOTAL_BLOCKS |-> TRUE])

\* the length initialize gives a new file: set_len(BLOCK_SIZE * TOTAL_BLOCKS)
InitialLen == BLOCK_SIZE * TOTAL_BLOCKS

\* free_blocks.iter().position(|&b| b), scanning from index i upwards
RECURSIVE PositionFrom(_, _)
PositionFrom(fb, i) ==
    IF i >= Len(fb) THEN None
    ELSE IF fb[i + 1] THEN Some(i)
    ELSE PositionFrom(fb, i + 1)

RECURSIVE PositionDownFrom(_, _)
PositionDownFrom(fb, i) ==
    IF i < 0 THEN None
    ELSE IF fb[i + 1] THEN Some(i)
    ELSE PositionDownFrom(fb, i - 1)

position_last(fb) == PositionDownFrom(fb, Len(fb) - 1)

position_or_zero(fb) ==
    IF PositionFrom(fb, 0) = None THEN Some(0) ELSE PositionFrom(fb, 0)

position_from_one(fb) ==
    IF PositionFrom(fb, 1) # None THEN PositionFrom(fb, 1) ELSE PositionFrom(fb, 0)

position(fb) == PositionFrom(fb, 0)

SetFlag_skip(fb, index, b) == fb

SetFlag_fill(fb, index, b) == [k \in 1..Len(fb) |-> b]

SetFlag_occupy(fb, index, b) == [fb EXCEPT ![index + 1] = FALSE]

SetFlag_toggle(fb, index, b) ==
    [fb EXCEPT ![index + 1] = IF b THEN ~fb[index + 1] ELSE FALSE]

SetFlag_neighbour(fb, index, b) ==
    [k \in 1..Len(fb) |-> IF k \in {index + 1, index + 2} THEN b ELSE fb[k]]

\* self.free_blocks[index] = b
SetFlag(fb, index, b) == [fb EXCEPT ![index + 1] = b]

IndexOutOfRange_off_by_one(index) == index > TOTAL_BLOCKS

\* the guard index >= TOTAL_BLOCKS of free_block, write_block, read_block
IndexOutOfRange(index) == index >= TOTAL_BLOCKS

DataTooLarge_off_by_one(data) == Len(data) > BLOCK_SIZE + 1

\* the guard data.len() > BLOCK_SIZE of write_block
DataTooLarge(data) == Len(data) > BLOCK_SIZE

BlockOffset_no_header(index) == index * BLOCK_SIZE

BlockOffset_no_bitmap(index) == 4 + index * BLOCK_SIZE

\* offset of block index: 4 + TOTAL_BLOCKS + index * BLOCK_SIZE
BlockOffset(index) == 4 + TOTAL_BLOCKS + index * BLOCK_SIZE

(* ------------------------------------------------------------------ *)
(* Inputs of the calls                                                 *)
(* ------------------------------------------------------------------ *)
\* every valid index and the first invalid one
Indices == 0..TOTAL_BLOCKS

\* n bytes, all non-zero and different at neighbouring positions; a shorter
\* payload is a prefix of a longer one
Payload(n) == [k \in 1..n |-> (k % 255) + 1]

\* payload lengths: part of a block, exactly a block, more than a block
DataLens == {2, BLOCK_SIZE, BLOCK_SIZE + 1}

Payloads == {Payload(n) : n \in DataLens}

(* ------------------------------------------------------------------ *)
(* Metadata layer: pure parts.  A string is the sequence of its        *)
(* characters.  FileMetadata keeps path, permissions, size and         *)
(* block_indices; created_at and modified_at hold the clock reading    *)
(* (Utc::now) and are never read, they are left out.                   *)
(* ------------------------------------------------------------------ *)
\* HashMap::insert
MapInsert(m, key, value) ==
    [x \in DOMAIN m \cup {key} |-> IF x = key THEN value ELSE m[x]]

MapRemove_all(m, key) == <<>>

\* HashMap::remove
MapRemove(m, key) == [x \in DOMAIN m \ {key} |-> m[x]]

\* MetadataStore::new
MetadataStore_new == <<>>

\* MetadataStore::add_file
add_file(store, name, metadata) == MapInsert(store, name, metadata)

\* MetadataStore::get_file_metadata
get_file_metadata(store, name) ==
    IF name \in DOMAIN store THEN Some(store[name]) ELSE None

\* MetadataStore::update_file_metadata
update_file_metadata(store, name, metadata) == MapInsert(store, name, metadata)

\* MetadataStore::remove_file_metadata
remove_file_metadata(store, name) == MapRemove(store, name)

\* str::starts_with('/')
starts_with_slash(str) == Len(str) > 0 /\ str[1] = "/"

\* str::trim_end_matches('/')
RECURSIVE trim_end_matches_slash(_)
trim_end_matches_slash(str) ==
    IF Len(str) > 0 /\ str[Len(str)] = "/"
    THEN trim_end_matches_slash(SubSeq(str, 1, Len(str) - 1))
    ELSE str

create_file_metadata_untrimmed(file_name, directory_path, permissions, size) ==
    [path |-> directory_path \o <<"/">> \o file_name,
     permissions |-> permissions,
     size |-> size,
     block_indices |-> <<>>]

\* create_file_metadata
create_file_metadata(file_name, directory_path, permissions, size) ==
    [path |-> trim_end_matches_slash(directory_path) \o <<"/">> \o file_name,
     permissions |-> permissions,
     size |-> size,
     block_indices |-> <<>>]

\* resolve_path
resolve_path(directory, path) ==
    IF starts_with_slash(path) THEN path
    ELSE trim_end_matches_slash(directory.name) \o <<"/">> \o path

\* the root DirectoryMetadata as main and the tests build it
RootDirectory == [name |-> <<"/">>, files |-> <<>>, subdirectories |-> <<>>]

\* io::Error values of the file functions
ErrFileNotFound == [kind |-> "NotFound", msg |-> "File not found"]

ErrNotInDirectory == [kind |-> "NotFound", msg |-> "File not found in this directory"]

ErrFileExists == [kind |-> "AlreadyExists", msg |-> "File already exists in this directory"]

FsCall(op, path, data, res) ==
    [op |-> op, path |-> path, data |-> data, kind |-> res.kind, msg |-> res.msg]

(* ------------------------------------------------------------------ *)
(* State                                                               *)
(* ------------------------------------------------------------------ *)
VARIABLES
    exists,       \* Path::new(disk_path).exists()
    disk,         \* content of the file at disk_path
    opened,       \* a BlockManager returned by initialize is alive
    free_blocks,  \* BlockManager.free_blocks (TRUE = free)
    last,         \* the last call: operation, arguments, result
    dropped,      \* free_blocks of the dropped BlockManager, until the next initialize
    outstanding,  \* indices this BlockManager returned from allocate_block
                  \* and that no successful free_block has taken since
    seen,         \* what the calls up to the last one add up to (see NoPattern)
    metadata_store,     \* MetadataStore.files: path -> FileMetadata
    current_directory,  \* the DirectoryMetadata the file functions are given
    fs_last,            \* the last call of a file function and its result
    root_directory,     \* the DirectoryMetadata at the top of the hierarchy
    filesystem_json,         \* filesystem.json: None, or the saved
                             \* (root_directory, metadata_store)
    current_directory_json   \* current_directory.json: None, or the saved
                             \* current_directory

dirvars == <<root_directory, filesystem_json, current_directory_json>>

fsvars == <<metadata_store, current_directory, fs_last,
            root_directory, filesystem_json, current_directory_json>>

vars == <<exists, disk, opened, free_blocks, last, dropped, outstanding, seen,
          metadata_store, current_directory, fs_last,
          root_directory, filesystem_json, current_directory_json>>

Call(op, index, data, res, value) ==
    [op |-> op, index |-> index, data |-> data,
     kind |-> res.kind, msg |-> res.msg, value |-> value]

\* History of the calls that ended with the last one:
\*   refill  1: free_block succeeded on a fully occupied vector,
\*           2: then allocate_block was called, 3: then allocate_block again
\*   reuse   1: allocate_block returned an index and free_block of that index
\*              succeeded right after it, 2: then allocate_block was called
\*   index   the index given to the free_block of a pattern in progress
\*   refree  free_block succeeded on an index whose flag was already free
\*   created initialize created and formatted the file
\*   formats how many times in a row format has just run (counted up to 2)
\*   fresh   k + 1: initialize created and formatted the file and the calls
\*           since then were allocate_block only, k of them successful;
\*           0: anything else
\*   script  1: after TOTAL_BLOCKS - 1 such allocations free_block(1)
\*           succeeded, 2, 3, 4: then allocate_block was called once, twice,
\*           three times
NoPattern ==
    [refill |-> 0, reuse |-> 0, index |-> 0, refree |-> FALSE, created |-> FALSE,
     formats |-> 0, fresh |-> 0, script |-> 0]

\* the history after a call of allocate_block
SeenAfterAllocate ==
    LET refill == IF seen.refill \in {1, 2} THEN seen.refill + 1 ELSE 0
        reuse  == IF seen.reuse = 1 THEN 2 ELSE 0
    IN  [NoPattern EXCEPT
            !.refill = refill,
            !.reuse = reuse,
            !.index = IF refill = 2 \/ reuse = 2 THEN seen.index ELSE 0,
            !.fresh = IF seen.fresh = 0 THEN 0
                      ELSE IF position(free_blocks) # None THEN seen.fresh + 1
                      ELSE seen.fresh,
            !.script = IF seen.script \in 1..3 THEN seen.script + 1 ELSE 0]

\* the history after a successful free_block(index)
SeenAfterFree(index) ==
    LET refill == IF \A k \in 1..Len(free_blocks) : ~free_blocks[k] THEN 1 ELSE 0
        reuse  == IF /\ last.op = "allocate_block"
                     /\ last.kind = "Ok"
                     /\ last.value = <<index>>
                  THEN 1 ELSE 0
    IN  [NoPattern EXCEPT
            !.refill = refill,
            !.reuse = reuse,
            !.index = IF refill = 1 \/ reuse = 1 THEN index ELSE 0,
            !.refree = (index + 1 \in DOMAIN free_blocks /\ free_blocks[index + 1]),
            !.script = IF seen.fresh = TOTAL_BLOCKS /\ index = 1 THEN 1 ELSE 0]

Init ==
    /\ exists = FALSE
    /\ disk = <<>>
    /\ opened = FALSE
    /\ free_blocks = <<>>
    /\ last = Call("none", 0, <<>>, Ok, <<>>)
    /\ dropped = <<>>
    /\ outstanding = {}
    /\ seen = NoPattern
    /\ metadata_store = MetadataStore_new
    /\ current_directory = RootDirectory
    /\ fs_last = FsCall("none", <<>>, <<>>, Ok)
    /\ root_directory = RootDirectory
    /\ filesystem_json = None
    /\ current_directory_json = None

(* ------------------------------------------------------------------ *)
(* Operations                                                          *)
(* ------------------------------------------------------------------ *)
\* BlockManager::initialize, the file does not exist: create, set_len, format
InitializeNew ==
    /\ ~opened
    /\ ~exists
    /\ exists' = TRUE
    /\ disk' = format(set_len(<<>>, InitialLen))
    /\ IF ReadExactOk(disk', BITMAP_OFFSET, TOTAL_BLOCKS)
       THEN /\ opened' = TRUE
            /\ free_blocks' = load_free_blocks(disk')
            /\ last' = Call("initialize", 0, <<>>, Ok, <<>>)
       ELSE /\ opened' = FALSE
            /\ free_blocks' = <<>>
            /\ last' = Call("initialize", 0, <<>>, ErrUnexpectedEof, <<>>)
    /\ outstanding' = {}
    /\ dropped' = <<>>
    /\ seen' = [NoPattern EXCEPT !.created = opened',
                                  !.fresh = IF opened' THEN 1 ELSE 0]
    /\ UNCHANGED fsvars

InitializeExisting_reformat ==
    /\ ~opened
    /\ exists
    /\ disk' = format(disk)
    /\ opened' = TRUE
    /\ free_blocks' = load_free_blocks(disk')
    /\ last' = Call("initialize", 0, <<>>, Ok, <<>>)
    /\ outstanding' = {}
    /\ dropped' = <<>>
    /\ seen' = NoPattern
    /\ UNCHANGED exists
    /\ UNCHANGED fsvars

\* BlockManager::initialize, the file exists: open it as it is
InitializeExisting ==
    /\ ~opened
    /\ exists
    /\ IF ReadExactOk(disk, BITMAP_OFFSET, TOTAL_BLOCKS)
       THEN /\ opened' = TRUE
            /\ free_blocks' = load_free_blocks(disk)
            /\ last' = Call("initialize", 0, <<>>, Ok, <<>>)
       ELSE /\ opened' = FALSE
            /\ free_blocks' = <<>>
            /\ last' = Call("initialize", 0, <<>>, ErrUnexpectedEof, <<>>)
    /\ outstanding' = {}
    /\ dropped' = <<>>
    /\ seen' = NoPattern
    /\ UNCHANGED <<exists, disk>>
    /\ UNCHANGED fsvars

\* the BlockManager goes out of scope (no flush beyond closing the handle)
Drop ==
    /\ opened
    /\ opened' = FALSE
    /\ dropped' = free_blocks
    /\ free_blocks' = <<>>
    /\ outstanding' = {}
    /\ last' = Call("drop", 0, <<>>, Ok, <<>>)
    /\ seen' = NoPattern
    /\ UNCHANGED <<exists, disk>>
    /\ UNCHANGED fsvars

\* BlockManager::allocate_block
allocate_block ==
    /\ opened
    /\ LET found == position(free_blocks) IN
       IF found # None
       THEN LET index == found[1] IN
            /\ free_blocks' = SetFlag(free_blocks, index, FALSE)
            /\ disk' = save_free_blocks(disk, free_blocks')
            /\ last' = Call("allocate_block", 0, <<>>, Ok, Some(index))
            /\ outstanding' = outstanding \cup {index}
       ELSE /\ last' = Call("allocate_block", 0, <<>>, ErrNoFreeBlocks, <<>>)
            /\ UNCHANGED <<free_blocks, disk, outstanding>>
    /\ seen' = SeenAfterAllocate
    /\ UNCHANGED <<exists, opened, dropped>>
    /\ UNCHANGED fsvars

\* BlockManager::free_block
free_block(index) ==
    /\ opened
    /\ IF IndexOutOfRange(index)
       THEN /\ last' = Call("free_block", index, <<>>, ErrInvalidBlockIndex, <<>>)
            /\ seen' = NoPattern
            /\ UNCHANGED <<free_blocks, disk, outstanding>>
       ELSE /\ free_blocks' = SetFlag(free_blocks, index, TRUE)
            /\ disk' = save_free_blocks(disk, free_blocks')
            /\ last' = Call("free_block", index, <<>>, Ok, <<>>)
            /\ outstanding' = outstanding \ {index}
            /\ seen' = SeenAfterFree(index)
    /\ UNCHANGED <<exists, opened, dropped>>
    /\ UNCHANGED fsvars

\* BlockManager::write_block
write_block(index, data) ==
    /\ opened
    /\ IF IndexOutOfRange(index)
       THEN /\ last' = Call("write_block", index, data, ErrInvalidBlockIndex, <<>>)
            /\ UNCHANGED disk
       ELSE IF DataTooLarge(data)
       THEN /\ last' = Call("write_block", index, data, ErrDataTooLarge, <<>>)
            /\ UNCHANGED disk
       ELSE /\ disk' = WriteAt(disk, BlockOffset(index), data)
            /\ last' = Call("write_block", index, data, Ok, <<>>)
    /\ seen' = NoPattern
    /\ UNCHANGED <<exists, opened, free_blocks, dropped, outstanding>>
    /\ UNCHANGED fsvars

\* BlockManager::read_block
read_block(index) ==
    /\ opened
    /\ IF IndexOutOfRange(index)
       THEN last' = Call("read_block", index, <<>>, ErrInvalidBlockIndex, <<>>)
       ELSE IF ReadExactOk(disk, BlockOffset(index), BLOCK_SIZE)
       THEN last' = Call("read_block", index, <<>>, Ok,
                         ReadExactAt(disk, BlockOffset(index), BLOCK_SIZE))
       ELSE last' = Call("read_block", index, <<>>, ErrUnexpectedEof, <<>>)
    /\ seen' = NoPattern
    /\ UNCHANGED <<exists, disk, opened, free_blocks, dropped, outstanding>>
    /\ UNCHANGED fsvars

Next ==
    \/ InitializeNew
    \/ InitializeExisting
    \/ Drop
    \/ allocate_block
    \/ \E index \in Indices : free_block(index)
    \/ \E index \in Indices, data \in Payloads : write_block(index, data)
    \/ \E index \in Indices : read_block(index)

Spec == Init /\ [][Next]_vars

(* ------------------------------------------------------------------ *)
(* The same operations when the operating system fails a bitmap write  *)
(* ------------------------------------------------------------------ *)
\* save_free_blocks returning Err: seek failed (n = 0) or write_all failed
\* after n of the bytes reached the file
save_free_blocks_failing(d, fb, n) ==
    WriteAt(d, BITMAP_OFFSET, [k \in 1..n |-> EncodeFlag(fb[k])])

\* BlockManager::allocate_block, save_free_blocks(..)? returns the error
allocate_block_save_error ==
    /\ opened
    /\ position(free_blocks) # None
    /\ free_blocks' = SetFlag(free_blocks, position(free_blocks)[1], FALSE)
    /\ \E n \in 0..(TOTAL_BLOCKS - 1) :
          disk' = save_free_blocks_failing(disk, free_blocks', n)
    /\ last' = Call("allocate_block", 0, <<>>, ErrOs, <<>>)
    /\ seen' = [SeenAfterAllocate EXCEPT !.fresh = 0, !.script = 0]
    /\ UNCHANGED <<exists, opened, dropped, outstanding>>
    /\ UNCHANGED fsvars

\* BlockManager::free_block, save_free_blocks(..)? returns the error
free_block_save_error(index) ==
    /\ opened
    /\ ~IndexOutOfRange(index)
    /\ free_blocks' = SetFlag(free_blocks, index, TRUE)
    /\ \E n \in 0..(TOTAL_BLOCKS - 1) :
          disk' = save_free_blocks_failing(disk, free_blocks', n)
    /\ last' = Call("free_block", index, <<>>, ErrOs, <<>>)
    /\ seen' = NoPattern
    /\ UNCHANGED <<exists, opened, dropped, outstanding>>
    /\ UNCHANGED fsvars

NextIO ==
    \/ InitializeNew
    \/ InitializeExisting
    \/ Drop
    \/ allocate_block
    \/ \E index \in Indices : free_block(index)
    \/ \E index \in Indices, data \in Payloads : write_block(index, data)
    \/ \E index \in Indices : read_block(index)
    \/ allocate_block_save_error
    \/ \E index \in Indices : free_block_save_error(index)

SpecIO == Init /\ [][NextIO]_vars

(* ------------------------------------------------------------------ *)
(* initialize when the operating system fails a step of the creation  *)
(* ------------------------------------------------------------------ *)
\* what the new file holds when initialize returns the error of step
\*   "set_len": the file was created, set_len failed
\*   "seek":    set_len succeeded, the first seek of format failed
\*   "magic":   write_all of the signature failed after n of its bytes
\*   "bitmap":  save_free_blocks failed after n of its bytes
FileLeftBy(step, n) ==
    LET sized == set_len(<<>>, InitialLen)
        signature == to_le_bytes(MAGIC_HI, MAGIC_LO)
        signed == WriteAt(sized, 0, signature)
    IN  IF step = "set_len" THEN <<>>
        ELSE IF step = "seek" THEN sized
        ELSE IF step = "magic" THEN WriteAt(sized, 0, SubSeq(signature, 1, n))
        ELSE save_free_blocks_failing(signed, [k \in 1..TOTAL_BLOCKS |-> TRUE], n)

\* the steps of the creation that can fail once the file exists, with the
\* number of bytes the failing write had put into the file
FailingSteps ==
    {<<"set_len", 0>>, <<"seek", 0>>}
        \cup {<<"magic", n>> : n \in 1..3}
        \cup {<<"bitmap", n>> : n \in 0..(TOTAL_BLOCKS - 1)}

\* BlockManager::initialize, the file does not exist and set_len(..)? or
\* format(..)? returns the error: the file stays behind as it is
InitializeNew_error(step, n) ==
    /\ ~opened
    /\ ~exists
    /\ exists' = TRUE
    /\ disk' = FileLeftBy(step, n)
    /\ opened' = FALSE
    /\ free_blocks' = <<>>
    /\ last' = Call("initialize", 0, <<>>, ErrOs, <<>>)
    /\ outstanding' = {}
    /\ dropped' = <<>>
    /\ seen' = NoPattern
    /\ UNCHANGED fsvars

NextInit ==
    \/ InitializeNew
    \/ \E s \in FailingSteps : InitializeNew_error(s[1], s[2])
    \/ InitializeExisting
    \/ Drop
    \/ allocate_block
    \/ \E index \in Indices : free_block(index)

SpecInit == Init /\ [][NextInit]_vars

(* ------------------------------------------------------------------ *)
(* format, save_free_blocks and load_free_blocks on their own: the    *)
(* associated functions of BlockManager that take the File, applied   *)
(* to files of any content                                            *)
(* ------------------------------------------------------------------ *)
\* byte values a file may hold in its header and bitmap regions
ByteSamples == {0, 1, 2, 255}

\* length of a file that holds the header, the bitmap and every block
FullLen == 4 + TOTAL_BLOCKS + BLOCK_SIZE * TOTAL_BLOCKS

\* a file of length len: signature or zeros, the given bitmap bytes, and a
\* data region that is empty (zeros) or filled
SampleFile(len, signed, bitmap, filled) ==
    [k \in 1..len |->
        IF k <= 4 THEN (IF signed THEN to_le_bytes(MAGIC_HI, MAGIC_LO)[k] ELSE 0)
        ELSE IF k <= 4 + TOTAL_BLOCKS THEN bitmap[k - 4]
        ELSE IF filled THEN (k % 255) + 1 ELSE 0]

SampleFiles ==
    {SampleFile(len, signed, bitmap, filled) :
        len \in {InitialLen, FullLen}, signed \in BOOLEAN,
        bitmap \in [1..TOTAL_BLOCKS -> ByteSamples], filled \in BOOLEAN}

\* every occupancy vector of length TOTAL_BLOCKS
FlagVectors == [1..TOTAL_BLOCKS -> BOOLEAN]

\* a file opened by the caller, no BlockManager
InitCodec ==
    /\ exists = TRUE
    /\ disk \in SampleFiles
    /\ opened = FALSE
    /\ free_blocks = <<>>
    /\ last = Call("none", 0, <<>>, Ok, <<>>)
    /\ dropped = <<>>
    /\ outstanding = {}
    /\ seen = NoPattern
    /\ metadata_store = MetadataStore_new
    /\ current_directory = RootDirectory
    /\ fs_last = FsCall("none", <<>>, <<>>, Ok)
    /\ root_directory = RootDirectory
    /\ filesystem_json = None
    /\ current_directory_json = None

\* BlockManager::format(&mut file)
format_file ==
    /\ disk' = format(disk)
    /\ last' = Call("format", 0, <<>>, Ok, <<>>)
    /\ seen' = [NoPattern EXCEPT
                   !.formats = IF seen.formats >= 1 THEN 2 ELSE 1]
    /\ UNCHANGED <<exists, opened, free_blocks, dropped, outstanding>>
    /\ UNCHANGED fsvars

\* BlockManager::save_free_blocks(&mut file, &free_blocks)
save_free_blocks_file(fb) ==
    /\ disk' = save_free_blocks(disk, fb)
    /\ last' = Call("save_free_blocks", 0, fb, Ok, <<>>)
    /\ seen' = NoPattern
    /\ UNCHANGED <<exists, opened, free_blocks, dropped, outstanding>>
    /\ UNCHANGED fsvars

\* BlockManager::load_free_blocks(&file)
load_free_blocks_file ==
    /\ IF ReadExactOk(disk, BITMAP_OFFSET, TOTAL_BLOCKS)
       THEN last' = Call("load_free_blocks", 0, <<>>, Ok, load_free_blocks(disk))
       ELSE last' = Call("load_free_blocks", 0, <<>>, ErrUnexpectedEof, <<>>)
    /\ seen' = NoPattern
    /\ UNCHANGED <<exists, disk, opened, free_blocks, dropped, outstanding>>
    /\ UNCHANGED fsvars

NextCodec ==
    \/ format_file
    \/ \E fb \in FlagVectors : save_free_blocks_file(fb)
    \/ load_free_blocks_file

SpecCodec == InitCodec /\ [][NextCodec]_vars

(* ------------------------------------------------------------------ *)
(* File functions (src/src/file/mod.rs) on top of the BlockManager     *)
(* ------------------------------------------------------------------ *)
\* BlockManager::allocate_block as a function of free_blocks and the file
allocate_block_on(fb, d) ==
    LET found == position(fb) IN
    IF found # None
    THEN [res |-> Ok, index |-> found[1],
          fb |-> SetFlag(fb, found[1], FALSE),
          d |-> save_free_blocks(d, SetFlag(fb, found[1], FALSE))]
    ELSE [res |-> ErrNoFreeBlocks, index |-> 0, fb |-> fb, d |-> d]

\* BlockManager::free_block as a function of free_blocks and the file
free_block_on(fb, d, index) ==
    IF IndexOutOfRange(index)
    THEN [res |-> ErrInvalidBlockIndex, fb |-> fb, d |-> d]
    ELSE [res |-> Ok,
          fb |-> SetFlag(fb, index, TRUE),
          d |-> save_free_blocks(d, SetFlag(fb, index, TRUE))]

\* BlockManager::write_block as a function of the file
write_block_on(d, index, data) ==
    IF IndexOutOfRange(index)
    THEN [res |-> ErrInvalidBlockIndex, d |-> d]
    ELSE IF DataTooLarge(data)
    THEN [res |-> ErrDataTooLarge, d |-> d]
    ELSE [res |-> Ok, d |-> WriteAt(d, BlockOffset(index), data)]

next_chunk_short(remaining_data) ==
    IF Len(remaining_data) >= BLOCK_SIZE
    THEN SubSeq(remaining_data, 1, BLOCK_SIZE - 1)
    ELSE remaining_data

\* the chunk write_to_file takes off the front of the remaining data
next_chunk(remaining_data) ==
    IF Len(remaining_data) > BLOCK_SIZE
    THEN SubSeq(remaining_data, 1, BLOCK_SIZE)
    ELSE remaining_data

\* the loop of write_to_file: one allocate_block and one write_block per
\* chunk of at most BLOCK_SIZE bytes, `?` returning at the first error
RECURSIVE write_chunks(_, _, _, _)
write_chunks(fb, d, remaining_data, block_indices) ==
    IF remaining_data = <<>>
    THEN [res |-> Ok, fb |-> fb, d |-> d,
          block_indices |-> block_indices]
    ELSE LET a == allocate_block_on(fb, d) IN
         IF a.res # Ok
         THEN [res |-> a.res, fb |-> a.fb, d |-> a.d,
               block_indices |-> block_indices]
         ELSE LET chunk == next_chunk(remaining_data)
                  w == write_block_on(a.d, a.index, chunk)
              IN  IF w.res # Ok
                  THEN [res |-> w.res, fb |-> a.fb, d |-> w.d,
                        block_indices |-> block_indices]
                  ELSE write_chunks(a.fb, w.d,
                           SubSeq(remaining_data, Len(chunk) + 1, Len(remaining_data)),
                           Append(block_indices, a.index))

\* the loop of remove_file: free_block for each index, `?` returning at the
\* first error
RECURSIVE free_all(_, _, _)
free_all(fb, d, block_indices) ==
    IF block_indices = <<>>
    THEN [res |-> Ok, fb |-> fb, d |-> d]
    ELSE LET f == free_block_on(fb, d, Head(block_indices)) IN
         IF f.res # Ok
         THEN [res |-> f.res, fb |-> f.fb, d |-> f.d]
         ELSE free_all(f.fb, f.d, Tail(block_indices))

\* indices whose flag went from free to occupied
NewlyOccupied(fb_before, fb_after) ==
    {i \in 0..(Len(fb_before) - 1) : fb_before[i + 1] /\ ~fb_after[i + 1]}

\* indices whose flag is free afterwards
FreeIn(fb) == {i \in 0..(Len(fb) - 1) : fb[i + 1]}

\* file names, paths, permissions and contents given to the file functions
FileNames == {<<"a">>}

FilePaths == FileNames \cup {<<"/">> \o name : name \in FileNames}

Permissions == {<<"r", "w">>}

\* content lengths: empty, and two chunks of which the second is short
FileLens == {0, BLOCK_SIZE + 2}

\* longest block list a file is let grow to: write_to_file appends to the
\* list it finds and nothing in the code shortens a list, so the model makes
\* no call of write_to_file that would take a list beyond this length
MaxBlockList == 2

\* number of chunks write_to_file cuts n bytes into
Chunks(n) == (n + BLOCK_SIZE - 1) \div BLOCK_SIZE

\* create_file_in_directory on the current directory
create_file_in_directory(file_name, permissions) ==
    /\ IF file_name \in DOMAIN current_directory.files
       THEN /\ fs_last' = FsCall("create_file_in_directory", file_name, <<>>, ErrFileExists)
            /\ UNCHANGED <<current_directory, metadata_store>>
       ELSE LET metadata == create_file_metadata(file_name, current_directory.name,
                                                 permissions, 0)
            IN  /\ current_directory' =
                      [current_directory EXCEPT
                          !.files = MapInsert(current_directory.files, file_name, metadata)]
                /\ metadata_store' = add_file(metadata_store, metadata.path, metadata)
                /\ fs_last' = FsCall("create_file_in_directory", file_name, <<>>, Ok)
    /\ UNCHANGED <<exists, disk, opened, free_blocks, last, dropped, outstanding, seen>>
    /\ UNCHANGED dirvars

\* remove_file_from_directory on the current directory
remove_file_from_directory(file_name) ==
    /\ IF file_name \notin DOMAIN current_directory.files
       THEN /\ fs_last' = FsCall("remove_file_from_directory", file_name, <<>>, ErrNotInDirectory)
            /\ UNCHANGED <<current_directory, metadata_store>>
       ELSE /\ current_directory' =
                  [current_directory EXCEPT
                      !.files = MapRemove(current_directory.files, file_name)]
            /\ metadata_store' = remove_file_metadata(metadata_store, file_name)
            /\ fs_last' = FsCall("remove_file_from_directory", file_name, <<>>, Ok)
    /\ UNCHANGED <<exists, disk, opened, free_blocks, last, dropped, outstanding, seen>>
    /\ UNCHANGED dirvars

\* write_to_file
write_to_file(path, data) ==
    /\ opened
    /\ resolve_path(current_directory, path) \in DOMAIN metadata_store
         => Len(metadata_store[resolve_path(current_directory, path)].block_indices)
                + Chunks(Len(data)) <= MaxBlockList
    /\ LET resolved_path == resolve_path(current_directory, path) IN
       IF resolved_path \notin DOMAIN metadata_store
       THEN /\ fs_last' = FsCall("write_to_file", path, data, ErrFileNotFound)
            /\ UNCHANGED <<disk, free_blocks, outstanding, seen, metadata_store>>
       ELSE LET metadata == metadata_store[resolved_path]
                w == write_chunks(free_blocks, disk, data, metadata.block_indices)
            IN  /\ free_blocks' = w.fb
                /\ disk' = w.d
                /\ outstanding' = outstanding \cup NewlyOccupied(free_blocks, w.fb)
                /\ seen' = NoPattern
                /\ fs_last' = FsCall("write_to_file", path, data, w.res)
                /\ IF w.res = Ok
                   THEN metadata_store' =
                            update_file_metadata(metadata_store, path,
                                [metadata EXCEPT !.block_indices = w.block_indices,
                                                 !.size = Len(data)])
                   ELSE UNCHANGED metadata_store
    /\ UNCHANGED <<exists, opened, last, dropped, current_directory>>
    /\ UNCHANGED dirvars

\* remove_file
remove_file(path) ==
    /\ opened
    /\ IF path \in DOMAIN metadata_store
       THEN LET f == free_all(free_blocks, disk, metadata_store[path].block_indices)
            IN  /\ free_blocks' = f.fb
                /\ disk' = f.d
                /\ outstanding' = outstanding \ FreeIn(f.fb)
                /\ seen' = NoPattern
                /\ fs_last' = FsCall("remove_file", path, <<>>, f.res)
                /\ IF f.res = Ok
                   THEN metadata_store' = remove_file_metadata(metadata_store, path)
                   ELSE UNCHANGED metadata_store
       ELSE /\ fs_last' = FsCall("remove_file", path, <<>>, Ok)
            /\ UNCHANGED <<disk, free_blocks, outstanding, seen, metadata_store>>
    /\ UNCHANGED <<exists, opened, last, dropped, current_directory>>
    /\ UNCHANGED dirvars

\* a formatted store just opened, an empty MetadataStore and the root
\* directory, as test_write_to_file sets them up
InitFS ==
    /\ exists = TRUE
    /\ disk = format(set_len(<<>>, InitialLen))
    /\ opened = TRUE
    /\ free_blocks = load_free_blocks(disk)
    /\ last = Call("initialize", 0, <<>>, Ok, <<>>)
    /\ dropped = <<>>
    /\ outstanding = {}
    /\ seen = [NoPattern EXCEPT !.created = TRUE, !.fresh = 1]
    /\ metadata_store = MetadataStore_new
    /\ current_directory = RootDirectory
    /\ fs_last = FsCall("none", <<>>, <<>>, Ok)
    /\ root_directory = RootDirectory
    /\ filesystem_json = None
    /\ current_directory_json = None

NextFS ==
    \/ \E file_name \in FileNames, permissions \in Permissions :
          create_file_in_directory(file_name, permissions)
    \/ \E file_name \in FileNames : remove_file_from_directory(file_name)
    \/ \E path \in FilePaths, n \in FileLens : write_to_file(path, Payload(n))
    \/ \E path \in FilePaths : remove_file(path)

SpecFS == InitFS /\ [][NextFS]_vars

(* ------------------------------------------------------------------ *)
(* read_file, and the file functions as the binary has them            *)
(* (src/src/main.rs): its write_to_file adds to the recorded size      *)
(* ------------------------------------------------------------------ *)
ErrInvalidUtf8 == [kind |-> "InvalidData", msg |-> "File contains invalid UTF-8 data"]

\* String::from_utf8 accepts the bytes: every byte below 128 is a character
\* of its own; the files of the model hold no byte of 128 or more in the
\* data region, a content with one is reported as invalid
from_utf8_ok(bytes) == \A k \in 1..Len(bytes) : bytes[k] < 128

\* Vec::truncate(len): no effect when the vector is shorter
truncate(content, len) ==
    IF len < Len(content) THEN SubSeq(content, 1, len) ELSE content

\* the loop of read_file: read_block for each index, `?` returning at the
\* first error
RECURSIVE read_blocks(_, _, _)
read_blocks(d, block_indices, content) ==
    IF block_indices = <<>> THEN [res |-> Ok, content |-> content]
    ELSE IF IndexOutOfRange(Head(block_indices))
    THEN [res |-> ErrInvalidBlockIndex, content |-> <<>>]
    ELSE IF ~ReadExactOk(d, BlockOffset(Head(block_indices)), BLOCK_SIZE)
    THEN [res |-> ErrUnexpectedEof, content |-> <<>>]
    ELSE read_blocks(d, Tail(block_indices),
             content \o ReadExactAt(d, BlockOffset(Head(block_indices)), BLOCK_SIZE))

\* read_file as a function of the store and the file
read_file_on(store, d, path) ==
    IF path \notin DOMAIN store
    THEN [res |-> ErrFileNotFound, content |-> <<>>]
    ELSE LET r == read_blocks(d, store[path].block_indices, <<>>) IN
         IF r.res # Ok THEN r
         ELSE IF ~from_utf8_ok(truncate(r.content, store[path].size))
         THEN [res |-> ErrInvalidUtf8, content |-> <<>>]
         ELSE [res |-> Ok, content |-> truncate(r.content, store[path].size)]

\* read_file; the content returned is kept in the data field of the call
read_file(path) ==
    /\ opened
    /\ LET r == read_file_on(metadata_store, disk, path) IN
       fs_last' = FsCall("read_file", path, r.content, r.res)
    /\ UNCHANGED <<exists, disk, opened, free_blocks, last, dropped, outstanding,
                   seen, metadata_store, current_directory>>
    /\ UNCHANGED dirvars

\* create_file_metadata of src/src/main.rs: the directory path is not trimmed
create_file_metadata_main(file_name, directory_path, permissions, size) ==
    [path |-> directory_path \o <<"/">> \o file_name,
     permissions |-> permissions,
     size |-> size,
     block_indices |-> <<>>]

\* create_file_in_directory of src/src/main.rs as a function of the
\* directory and the store
create_file_in_directory_main_on(file_name, directory, store, permissions) ==
    IF file_name \in DOMAIN directory.files
    THEN [res |-> ErrFileExists, directory |-> directory, store |-> store]
    ELSE LET metadata == create_file_metadata_main(file_name, directory.name,
                                                   permissions, 0)
         IN  [res |-> Ok,
              directory |-> [directory EXCEPT
                                !.files = MapInsert(@, file_name, metadata)],
              store |-> add_file(store, metadata.path, metadata)]

\* create_file_in_directory of src/src/main.rs on the current directory
create_file_in_directory_main(file_name, permissions) ==
    /\ LET c == create_file_in_directory_main_on(file_name, current_directory,
                    metadata_store, permissions)
       IN  /\ current_directory' = c.directory
           /\ metadata_store' = c.store
           /\ fs_last' = FsCall("create_file_in_directory", file_name, <<>>, c.res)
    /\ UNCHANGED <<exists, disk, opened, free_blocks, last, dropped, outstanding, seen>>
    /\ UNCHANGED dirvars

\* write_to_file of src/src/main.rs: updated_metadata.size += data.len()
write_to_file_main(path, data) ==
    /\ opened
    /\ resolve_path(current_directory, path) \in DOMAIN metadata_store
         => Len(metadata_store[resolve_path(current_directory, path)].block_indices)
                + Chunks(Len(data)) <= MaxBlockList
    /\ LET resolved_path == resolve_path(current_directory, path) IN
       IF resolved_path \notin DOMAIN metadata_store
       THEN /\ fs_last' = FsCall("write_to_file", path, data, ErrFileNotFound)
            /\ UNCHANGED <<disk, free_blocks, outstanding, seen, metadata_store>>
       ELSE LET metadata == metadata_store[resolved_path]
                w == write_chunks(free_blocks, disk, data, metadata.block_indices)
            IN  /\ free_blocks' = w.fb
                /\ disk' = w.d
                /\ outstanding' = outstanding \cup NewlyOccupied(free_blocks, w.fb)
                /\ seen' = NoPattern
                /\ fs_last' = FsCall("write_to_file", path, data, w.res)
                /\ IF w.res = Ok
                   THEN metadata_store' =
                            update_file_metadata(metadata_store, path,
                                [metadata EXCEPT !.block_indices = w.block_indices,
                                                 !.size = metadata.size + Len(data)])
                   ELSE UNCHANGED metadata_store
    /\ UNCHANGED <<exists, opened, last, dropped, current_directory>>
    /\ UNCHANGED dirvars

\* the paths given to the binary: a name, and the paths a file of the root
\* directory can be thought to have, with one slash and, as main.rs
\* registers it, with two
MainPaths == FilePaths \cup {<<"/", "/">> \o name : name \in FileNames}

\* the file commands of the binary: create, write, read, remove
NextMain ==
    \/ \E file_name \in FileNames, permissions \in Permissions :
          create_file_in_directory_main(file_name, permissions)
    \/ \E path \in MainPaths, n \in FileLens : write_to_file_main(path, Payload(n))
    \/ \E path \in MainPaths : read_file(path)
    \/ \E file_name \in FileNames : remove_file_from_directory(file_name)

SpecMain == InitFS /\ [][NextMain]_vars

(* ------------------------------------------------------------------ *)
(* Writing a file several times and reading it back                    *)
(* ------------------------------------------------------------------ *)
\* two different contents of the same length: "hi" and "ok"
FileContents == {<<104, 105>>, <<111, 107>>}

NextRW ==
    \/ \E file_name \in FileNames, permissions \in Permissions :
          create_file_in_directory(file_name, permissions)
    \/ \E path \in FilePaths, data \in FileContents : write_to_file(path, data)
    \/ \E path \in FilePaths : read_file(path)

SpecRW == InitFS /\ [][NextRW]_vars

(* ------------------------------------------------------------------ *)
(* Two files that are written and removed                              *)
(* ------------------------------------------------------------------ *)
TwoFileNames == {<<"a">>, <<"b">>}

\* file a by its relative and its absolute path, file b by its absolute path
TwoFilePaths == {<<"a">>, <<"/", "a">>, <<"/", "b">>}

NextTwo ==
    \/ \E file_name \in TwoFileNames, permissions \in Permissions :
          create_file_in_directory(file_name, permissions)
    \/ \E path \in TwoFilePaths, data \in FileContents : write_to_file(path, data)
    \/ \E path \in TwoFilePaths : remove_file(path)

SpecTwo == InitFS /\ [][NextTwo]_vars

(* ------------------------------------------------------------------ *)
(* The file functions, every call of which completes successfully      *)
(* ------------------------------------------------------------------ *)
AllFilePaths == TwoFileNames \cup {<<"/">> \o name : name \in TwoFileNames}

NextOk ==
    \/ \E file_name \in TwoFileNames, permissions \in Permissions :
          create_file_in_directory(file_name, permissions) /\ fs_last'.kind = "Ok"
    \/ \E file_name \in TwoFileNames :
          remove_file_from_directory(file_name) /\ fs_last'.kind = "Ok"
    \/ \E path \in AllFilePaths, n \in FileLens :
          write_to_file(path, Payload(n)) /\ fs_last'.kind = "Ok"
    \/ \E path \in AllFilePaths :
          remove_file(path) /\ fs_last'.kind = "Ok"

SpecOk == InitFS /\ [][NextOk]_vars

(* ------------------------------------------------------------------ *)
(* write_to_file with data of the lengths around the block size        *)
(* ------------------------------------------------------------------ *)
\* nothing, exactly a block, a block and a byte
WriteLens == {0, BLOCK_SIZE, BLOCK_SIZE + 1}

AbsolutePaths == {<<"/">> \o name : name \in TwoFileNames}

NextLen ==
    \/ \E file_name \in TwoFileNames, permissions \in Permissions :
          create_file_in_directory(file_name, permissions)
    \/ \E path \in AbsolutePaths, n \in WriteLens : write_to_file(path, Payload(n))
    \/ \E path \in AbsolutePaths : remove_file(path)

SpecLen == InitFS /\ [][NextLen]_vars

(* ------------------------------------------------------------------ *)
(* Directories (src/src/directory/mod.rs).  A DirectoryMetadata keeps  *)
(* name, files and subdirectories here; the time stamps are left out.  *)
(* ------------------------------------------------------------------ *)
ErrDirectoryExists == [kind |-> "AlreadyExists", msg |-> "Directory already exists"]

ErrDirectoryNotEmpty == [kind |-> "Other", msg |-> "Directory is not empty"]

ErrDirectoryNotFound == [kind |-> "NotFound", msg |-> "Directory not found"]

ErrParentNavigation == [kind |-> "Other", msg |-> "Parent navigation not implemented"]

\* the DirectoryMetadata create_directory builds: no files, no subdirectories
new_directory(name) == [name |-> name, files |-> <<>>, subdirectories |-> <<>>]

create_directory_on_overwrite(name, parent_directory) ==
    [res |-> Ok,
     directory |-> [parent_directory EXCEPT
                       !.subdirectories = MapInsert(@, name, new_directory(name))]]

\* create_directory as a function of the parent directory
create_directory_on(name, parent_directory) ==
    IF name \in DOMAIN parent_directory.subdirectories
    THEN [res |-> ErrDirectoryExists, directory |-> parent_directory]
    ELSE [res |-> Ok,
          directory |-> [parent_directory EXCEPT
                            !.subdirectories = MapInsert(@, name, new_directory(name))]]

\* remove_directory as a function of the parent directory
remove_directory_on(name, parent_directory) ==
    IF name \in DOMAIN parent_directory.subdirectories
    THEN LET directory == parent_directory.subdirectories[name] IN
         IF directory.files # <<>> \/ directory.subdirectories # <<>>
         THEN [res |-> ErrDirectoryNotEmpty, directory |-> parent_directory]
         ELSE [res |-> Ok,
               directory |-> [parent_directory EXCEPT
                                 !.subdirectories = MapRemove(@, name)]]
    ELSE [res |-> ErrDirectoryNotFound, directory |-> parent_directory]

\* str.split('/'): the parts between the slashes, empty parts included
\* (parts: the parts already cut off, part: the one being read)
RECURSIVE split_from(_, _, _)
split_from(str, parts, part) ==
    IF str = <<>>
    THEN Append(parts, part)
    ELSE IF Head(str) = "/"
    THEN split_from(Tail(str), Append(parts, part), <<>>)
    ELSE split_from(Tail(str), parts, Append(part, Head(str)))

split(str) == split_from(str, <<>>, <<>>)

\* the loop of change_directory over the parts of the path
RECURSIVE walk(_, _)
walk(target, parts) ==
    IF parts = <<>>
    THEN [res |-> Ok, directory |-> target]
    ELSE IF Head(parts) = <<".", ".">>
    THEN [res |-> ErrParentNavigation, directory |-> target]
    ELSE IF Head(parts) \in DOMAIN target.subdirectories
    THEN walk(target.subdirectories[Head(parts)], Tail(parts))
    ELSE [res |-> ErrDirectoryNotFound, directory |-> target]

\* change_directory as a function of the current and the root directory:
\* the result and the current directory afterwards
change_directory_on(current, root, path) ==
    IF path = <<"/">>
    THEN [res |-> Ok, directory |-> root]
    ELSE LET w == walk(IF starts_with_slash(path) THEN root ELSE current,
                       split(path))
         IN  IF w.res = Ok THEN w ELSE [res |-> w.res, directory |-> current]

\* the directory a sequence of names leads to from `directory`
RECURSIVE directory_at(_, _)
directory_at(directory, location) ==
    IF location = <<>>
    THEN directory
    ELSE directory_at(directory.subdirectories[Head(location)], Tail(location))

RECURSIVE is_location(_, _)
is_location(directory, location) ==
    \/ location = <<>>
    \/ /\ Head(location) \in DOMAIN directory.subdirectories
       /\ is_location(directory.subdirectories[Head(location)], Tail(location))

\* `directory` with the directory at `location` replaced: what a function
\* given a &mut to that directory leaves behind
RECURSIVE replace_at(_, _, _)
replace_at(directory, location, replacement) ==
    IF location = <<>>
    THEN replacement
    ELSE [directory EXCEPT
             !.subdirectories[Head(location)] =
                 replace_at(@, Tail(location), replacement)]

\* directory names, and how deep below the root the model makes directories
DirNames == {<<"d">>, <<"e">>}

MaxDepth == 2

\* the parents create_directory and remove_directory are given: the
\* directories of the hierarchy above the deepest level
ParentLocations ==
    {location \in UNION {[1..n -> DirNames] : n \in 0..(MaxDepth - 1)} :
        is_location(root_directory, location)}

\* paths given to change_directory: the root, absolute and relative paths of
\* one and two names, the parent, a trailing slash
DirPaths ==
    {<<"/">>, <<"/", "d">>, <<"d">>, <<"/", "d", "/", "e">>, <<"d", "/", "e">>,
     <<"e">>, <<".", ".">>, <<"d", "/">>}

\* create_directory(name, parent_directory), the parent being the directory
\* at `location` of the hierarchy
create_directory(name, location) ==
    /\ LET c == create_directory_on(name, directory_at(root_directory, location)) IN
       /\ root_directory' = replace_at(root_directory, location, c.directory)
       /\ fs_last' = FsCall("create_directory", name, location, c.res)
    /\ UNCHANGED <<exists, disk, opened, free_blocks, last, dropped, outstanding, seen>>
    /\ UNCHANGED <<metadata_store, current_directory, filesystem_json,
                   current_directory_json>>

\* remove_directory(name, parent_directory)
remove_directory(name, location) ==
    /\ LET r == remove_directory_on(name, directory_at(root_directory, location)) IN
       /\ root_directory' = replace_at(root_directory, location, r.directory)
       /\ fs_last' = FsCall("remove_directory", name, location, r.res)
    /\ UNCHANGED <<exists, disk, opened, free_blocks, last, dropped, outstanding, seen>>
    /\ UNCHANGED <<metadata_store, current_directory, filesystem_json,
                   current_directory_json>>

\* change_directory(current_directory, root_directory, path)
change_directory(path) ==
    /\ LET c == change_directory_on(current_directory, root_directory, path) IN
       /\ current_directory' = c.directory
       /\ fs_last' = FsCall("change_directory", path, <<>>, c.res)
    /\ UNCHANGED <<exists, disk, opened, free_blocks, last, dropped, outstanding, seen>>
    /\ UNCHANGED <<metadata_store, root_directory, filesystem_json,
                   current_directory_json>>

NextDir ==
    \/ \E name \in DirNames, location \in ParentLocations :
          create_directory(name, location)
    \/ \E name \in DirNames, location \in ParentLocations :
          remove_directory(name, location)
    \/ \E path \in DirPaths : change_directory(path)

SpecDir == Init /\ [][NextDir]_vars

(* ------------------------------------------------------------------ *)
(* The binary (src/src/main.rs), one run of main per step: it opens    *)
(* the disk file, loads filesystem.json and current_directory.json,    *)
(* runs one command and saves both files when it reaches its end.      *)
(* metadata.json and root_directory.json are written and never read    *)
(* into anything main uses, so they are left out.                      *)
(* ------------------------------------------------------------------ *)
\* what load_hierarchy returns, or the empty root and store main starts
\* with when filesystem.json does not exist
LoadedHierarchy ==
    IF filesystem_json = None
    THEN [root_directory |-> RootDirectory, metadata_store |-> MetadataStore_new]
    ELSE filesystem_json[1]

\* what load_current_directory returns, or a clone of the root directory
\* when current_directory.json does not exist
LoadedCurrentDirectory ==
    IF current_directory_json = None
    THEN LoadedHierarchy.root_directory
    ELSE current_directory_json[1]

\* a run of main around its command: res is the result of the command,
\* root, current and store are what main holds after it, and saves tells
\* whether main got to save the two files (a command whose error is
\* passed on with `?` ends main before that)
main(command, arg, res, root, current, store, saves) ==
    LET d == IF exists THEN disk ELSE format(set_len(<<>>, InitialLen)) IN
    /\ exists' = TRUE
    /\ disk' = d
    /\ opened' = FALSE
    /\ free_blocks' = <<>>
    /\ outstanding' = {}
    /\ seen' = NoPattern
    /\ IF ~ReadExactOk(d, BITMAP_OFFSET, TOTAL_BLOCKS)
       THEN /\ last' = Call("initialize", 0, <<>>, ErrUnexpectedEof, <<>>)
            /\ dropped' = <<>>
            /\ fs_last' = FsCall(command, arg, <<>>, ErrUnexpectedEof)
            /\ UNCHANGED <<metadata_store, current_directory, root_directory,
                           filesystem_json, current_directory_json>>
       ELSE /\ last' = Call("drop", 0, <<>>, Ok, <<>>)
            /\ dropped' = load_free_blocks(d)
            /\ fs_last' = FsCall(command, arg, <<>>, res)
            /\ root_directory' = root
            /\ current_directory' = current
            /\ metadata_store' = store
            /\ IF saves
               THEN /\ filesystem_json' =
                          Some([root_directory |-> root, metadata_store |-> store])
                    /\ current_directory_json' = Some(current)
               ELSE UNCHANGED <<filesystem_json, current_directory_json>>

\* create <file_name> <permissions>
main_create(file_name, permissions) ==
    LET c == create_file_in_directory_main_on(file_name, LoadedCurrentDirectory,
                 LoadedHierarchy.metadata_store, permissions)
    IN  main("create", file_name, c.res, LoadedHierarchy.root_directory,
             c.directory, c.store, c.res = Ok)

\* mkdir <directory_name>: an error is printed and main goes on
main_mkdir(dir_name) ==
    LET c == create_directory_on(dir_name, LoadedCurrentDirectory)
    IN  main("mkdir", dir_name, c.res, LoadedHierarchy.root_directory,
             c.directory, LoadedHierarchy.metadata_store, TRUE)

\* ls
main_ls ==
    main("ls", <<>>, Ok, LoadedHierarchy.root_directory,
         LoadedCurrentDirectory, LoadedHierarchy.metadata_store, TRUE)

\* rmdir <directory_name>
main_rmdir(dir_name) ==
    LET r == remove_directory_on(dir_name, LoadedHierarchy.root_directory)
    IN  main("rmdir", dir_name, r.res, r.directory,
             LoadedCurrentDirectory, LoadedHierarchy.metadata_store, r.res = Ok)

\* cd <directory_path>: an error is printed and main goes on
main_cd(dir_path) ==
    LET c == change_directory_on(LoadedCurrentDirectory,
                 LoadedHierarchy.root_directory, dir_path)
    IN  main("cd", dir_path, c.res, LoadedHierarchy.root_directory,
             c.directory, LoadedHierarchy.metadata_store, TRUE)

NextCLI ==
    \/ \E file_name \in FileNames, permissions \in Permissions :
          main_create(file_name, permissions)
    \/ \E dir_name \in DirNames : main_mkdir(dir_name)
    \/ main_ls
    \/ \E dir_name \in DirNames : main_rmdir(dir_name)
    \/ \E dir_path \in DirPaths : main_cd(dir_path)

SpecCLI == Init /\ [][NextCLI]_vars

(* ------------------------------------------------------------------ *)
(* Properties                                                          *)
(* ------------------------------------------------------------------ *)
ValidIndices == 0..(TOTAL_BLOCKS - 1)

SomeFree(fb) == \E i \in 1..Len(fb) : fb[i]

SomeOccupied(fb) == \E i \in 1..Len(fb) : ~fb[i]

\* C1: allocate_block never returns an index that an earlier allocate_block
\* of the same BlockManager returned and that no successful free_block has
\* taken since.
C1_NoDoubleAllocation ==
    [][(last'.op = "allocate_block" /\ last'.kind = "Ok")
        => last'.value[1] \notin outstanding]_vars

\* allocate_block has handed out index 0 again while index 1 is still held
C1_Witness ==
    /\ last.op = "allocate_block"
    /\ last.kind = "Ok"
    /\ last.value = <<0>>
    /\ 1 \in outstanding

\* C2: whenever at least one flag is free, allocate_block succeeds and
\* returns the lowest index whose flag is free.
C2_FirstFit ==
    [][(opened /\ SomeFree(free_blocks) /\ last'.op = "allocate_block")
        => /\ last'.kind = "Ok"
           /\ free_blocks[last'.value[1] + 1]
           /\ \A j \in ValidIndices :
                 j < last'.value[1] => ~free_blocks[j + 1]]_vars

\* allocate_block returned an index above 0 and a higher index is still free
C2_Witness ==
    /\ last.op = "allocate_block"
    /\ last.kind = "Ok"
    /\ last.value[1] > 0
    /\ \E j \in ValidIndices : j > last.value[1] /\ free_blocks[j + 1]

\* C3: after every successful allocate_block or free_block the byte at offset
\* 4 + i of the file is 1 when flag i is free and 0 when it is occupied, for
\* every block index i.
C3_WriteThrough ==
    (last.op \in {"allocate_block", "free_block"} /\ last.kind = "Ok")
        => /\ Len(free_blocks) = TOTAL_BLOCKS
           /\ \A i \in ValidIndices :
                 disk[4 + i + 1] = (IF free_blocks[i + 1] THEN 1 ELSE 0)

\* a successful free_block that leaves both free and occupied flags
C3_Witness ==
    /\ last.op = "free_block"
    /\ last.kind = "Ok"
    /\ SomeFree(free_blocks)
    /\ SomeOccupied(free_blocks)

\* C4: initialize on the path of a dropped BlockManager succeeds and loads
\* exactly the occupancy vector that BlockManager held when it was dropped.
C4_BitmapRoundTrip ==
    [][(exists /\ ~opened /\ last'.op = "initialize")
        => /\ last'.kind = "Ok"
           /\ free_blocks' = dropped]_vars

\* a reopened store whose loaded vector has free and occupied entries
C4_Witness ==
    /\ last.op = "initialize"
    /\ opened
    /\ SomeFree(free_blocks)
    /\ SomeOccupied(free_blocks)

\* C5: for every valid index (the last block included) and every data of at
\* most BLOCK_SIZE bytes, write_block followed by read_block of the same
\* index succeeds and the buffer read starts with data.
C5_ReadWriteFidelity ==
    [][(/\ last.op = "write_block"
        /\ last.index \in ValidIndices
        /\ Len(last.data) <= BLOCK_SIZE
        /\ last'.op = "read_block"
        /\ last'.index = last.index)
        => /\ last.kind = "Ok"
           /\ last'.kind = "Ok"
           /\ SubSeq(last'.value, 1, Len(last.data)) = last.data]_vars

\* C6: once initialize has created the store, the length of the file is
\* 4 + TOTAL_BLOCKS + TOTAL_BLOCKS * BLOCK_SIZE in every state.
C6_FileLength ==
    exists => Len(disk) = 4 + TOTAL_BLOCKS + TOTAL_BLOCKS * BLOCK_SIZE

\* C7: read_block of a valid index succeeds in every state and returns
\* exactly the BLOCK_SIZE bytes at offset 4 + TOTAL_BLOCKS + index * BLOCK_SIZE.
C7_ReadBlockTotal ==
    (last.op = "read_block" /\ last.index \in ValidIndices)
        => /\ last.kind = "Ok"
           /\ Len(last.value) = BLOCK_SIZE
           /\ \A k \in 1..BLOCK_SIZE :
                 last.value[k] = disk[4 + TOTAL_BLOCKS + last.index * BLOCK_SIZE + k]

\* C8: write_block, read_block and free_block with index >= TOTAL_BLOCKS
\* return the invalid-block-index error and change neither free_blocks nor
\* any byte of the file.
C8_BoundsEnforcement ==
    [][(/\ last'.op \in {"write_block", "read_block", "free_block"}
        /\ last'.index >= TOTAL_BLOCKS)
        => /\ last'.kind = "InvalidInput"
           /\ last'.msg = "Invalid block index"
           /\ free_blocks' = free_blocks
           /\ disk' = disk]_vars

\* free_block was refused for an index past the end while blocks are in use
C8_Witness ==
    /\ last.op = "free_block"
    /\ last.index >= TOTAL_BLOCKS
    /\ last.msg = "Invalid block index"
    /\ SomeOccupied(free_blocks)

\* C9 as stated: write_block with more than BLOCK_SIZE bytes always returns
\* the data-too-large error and changes neither the file nor free_blocks.
C9_SizeEnforcement_Original ==
    [][(last'.op = "write_block" /\ Len(last'.data) > BLOCK_SIZE)
        => /\ last'.kind = "InvalidInput"
           /\ last'.msg = "Data exceeds block size"
           /\ free_blocks' = free_blocks
           /\ disk' = disk]_vars

\* C9 amended: write_block with a valid index and more than BLOCK_SIZE bytes
\* returns the data-too-large error; with any index, write_block with more
\* than BLOCK_SIZE bytes changes neither the file nor free_blocks.
C9_SizeEnforcement ==
    [][(last'.op = "write_block" /\ Len(last'.data) > BLOCK_SIZE)
        => /\ last'.index \in ValidIndices
                => (last'.kind = "InvalidInput"
                    /\ last'.msg = "Data exceeds block size")
           /\ last'.kind # "Ok"
           /\ free_blocks' = free_blocks
           /\ disk' = disk]_vars

\* an oversized write_block to a valid index was refused
C9_Witness ==
    /\ last.op = "write_block"
    /\ last.index \in ValidIndices
    /\ Len(last.data) > BLOCK_SIZE
    /\ last.msg = "Data exceeds block size"

\* C10: when no flag is free, allocate_block returns the no-free-blocks
\* error and changes neither free_blocks nor the bitmap on disk.
C10_Exhaustion ==
    [][(opened /\ ~SomeFree(free_blocks) /\ last'.op = "allocate_block")
        => /\ last'.kind = "Other"
           /\ last'.msg = "No free blocks available"
           /\ free_blocks' = free_blocks
           /\ disk' = disk]_vars

\* allocate_block failed after this BlockManager handed out every block
C10_Witness ==
    /\ last.op = "allocate_block"
    /\ last.msg = "No free blocks available"
    /\ outstanding = ValidIndices

\* C11: after a successful free_block on the fully occupied vector, the next
\* allocate_block succeeds and returns the freed index, and the
\* allocate_block after it returns the no-free-blocks error.
C11_RefillOnce ==
    /\ seen.refill = 2
        => /\ last.op = "allocate_block"
           /\ last.kind = "Ok"
           /\ last.value = <<seen.index>>
    /\ seen.refill = 3
        => /\ last.op = "allocate_block"
           /\ last.kind = "Other"
           /\ last.msg = "No free blocks available"

\* full vector, one free_block, two allocate_block calls
C11_Witness == seen.refill = 3

\* C12: allocate_block returns i, free_block(i) follows at once, and the
\* allocate_block right after it returns i again.
C12_AllocationReuse ==
    seen.reuse = 2
        => /\ last.op = "allocate_block"
           /\ last.kind = "Ok"
           /\ last.value = <<seen.index>>

\* the pattern has run for an index above 0 while a higher index is free
C12_Witness ==
    /\ seen.reuse = 2
    /\ seen.index > 0
    /\ \E j \in ValidIndices : j > seen.index /\ free_blocks[j + 1]

\* C16: a successful write_block(i, data) puts data at offsets
\* 4 + TOTAL_BLOCKS + i * BLOCK_SIZE onwards and changes no other byte of the
\* file: the rest of block i, the other blocks, the header and the bitmap
\* stay as they were.
C16_WriteBlockFrame ==
    [][(last'.op = "write_block" /\ last'.kind = "Ok")
        => LET off == 4 + TOTAL_BLOCKS + last'.index * BLOCK_SIZE
               n   == Len(last'.data)
           IN  /\ Len(disk') >= Len(disk)
               /\ \A k \in 1..n : disk'[off + k] = last'.data[k]
               /\ \A k \in 1..Len(disk') :
                     (k <= off \/ k > off + n)
                        => (k <= Len(disk) /\ disk'[k] = disk[k])]_vars

\* a short write_block into a block whose later bytes hold earlier data
C16_Witness ==
    /\ last.op = "write_block"
    /\ last.kind = "Ok"
    /\ Len(last.data) < BLOCK_SIZE
    /\ Len(disk) > 4 + TOTAL_BLOCKS + last.index * BLOCK_SIZE + Len(last.data)
    /\ disk[4 + TOTAL_BLOCKS + last.index * BLOCK_SIZE + Len(last.data) + 1] # 0

\* C17: write_block and read_block leave free_blocks and the bitmap on disk
\* as they were, and write_block of at most BLOCK_SIZE bytes to a valid index
\* succeeds whether the flag of that index is free or occupied.
C17_NoOccupancyCheck ==
    [][(last'.op \in {"write_block", "read_block"})
        => /\ free_blocks' = free_blocks
           /\ \A i \in ValidIndices : disk'[4 + i + 1] = disk[4 + i + 1]
           /\ (/\ last'.op = "write_block"
               /\ last'.index \in ValidIndices
               /\ Len(last'.data) <= BLOCK_SIZE) => last'.kind = "Ok"]_vars

\* write_block succeeded on a block whose flag is free while another is occupied
C17_Witness ==
    /\ last.op = "write_block"
    /\ last.kind = "Ok"
    /\ free_blocks[last.index + 1]
    /\ SomeOccupied(free_blocks)

\* C18: free_block of a valid index succeeds and leaves its flag free whether
\* or not it was occupied; when the flag was already free, free_block changes
\* neither free_blocks nor the file, so a second free_block(i) leaves the
\* state of the first.
C18_FreeIdempotent ==
    [][(last'.op = "free_block" /\ last'.index \in ValidIndices)
        => /\ last'.kind = "Ok"
           /\ free_blocks'[last'.index + 1]
           /\ free_blocks[last'.index + 1]
                => (free_blocks' = free_blocks /\ disk' = disk)]_vars

\* free_block succeeded on an index whose flag was already free
C18_Witness ==
    /\ last.op = "free_block"
    /\ last.kind = "Ok"
    /\ seen.refree

\* C19: initialize on a path that does not exist succeeds; the file starts
\* with the bytes EF BE AD DE, the bitmap bytes at offsets 4 .. 4 +
\* TOTAL_BLOCKS - 1 are all 1 (free) and free_blocks is all free.
C19_InitializeNew ==
    [][(~exists /\ last'.op = "initialize")
        => /\ last'.kind = "Ok"
           /\ opened'
           /\ SubSeq(disk', 1, 4) = <<239, 190, 173, 222>>
           /\ \A i \in ValidIndices : disk'[4 + i + 1] = 1
           /\ free_blocks' = [k \in 1..TOTAL_BLOCKS |-> TRUE]]_vars

\* initialize has just created and formatted the file
C19_Witness ==
    /\ last.op = "initialize"
    /\ seen.created
    /\ opened

\* C20: initialize on a path that exists changes no byte of the file, and
\* when it succeeds flag i of free_blocks is free exactly when the byte at
\* offset 4 + i of the file is 1.
C20_InitializeExisting ==
    [][(exists /\ ~opened /\ last'.op = "initialize")
        => /\ disk' = disk
           /\ last'.kind = "Ok"
                => /\ opened'
                   /\ Len(free_blocks') = TOTAL_BLOCKS
                   /\ \A i \in ValidIndices :
                         free_blocks'[i + 1] = (disk[4 + i + 1] = 1)]_vars

\* an existing store with occupied blocks and written data has been opened
C20_Witness ==
    /\ last.op = "initialize"
    /\ ~seen.created
    /\ opened
    /\ SomeOccupied(free_blocks)
    /\ \E k \in (4 + TOTAL_BLOCKS + 1)..Len(disk) : disk[k] # 0

\* C13: whenever allocate_block or free_block returns an error, an error of
\* the bitmap write included, free_blocks is what it was before the call.
C13_NoPartialUpdate ==
    [][(last'.op \in {"allocate_block", "free_block"} /\ last'.kind # "Ok")
        => free_blocks' = free_blocks]_vars

\* the blocks of a list are free in free_blocks and in the bitmap of the file
AllFree(block_indices, fb, d) ==
    \A k \in 1..Len(block_indices) :
        /\ fb[block_indices[k] + 1]
        /\ d[4 + block_indices[k] + 1] = 1

\* C14: when write_to_file returns an error, the occupied blocks in memory
\* and on disk and the metadata store are what they were before the call.
C14_WriteAtomicity ==
    [][(fs_last'.op = "write_to_file" /\ fs_last'.kind # "Ok")
        => /\ free_blocks' = free_blocks
           /\ \A i \in ValidIndices : disk'[4 + i + 1] = disk[4 + i + 1]
           /\ metadata_store' = metadata_store]_vars

\* C15: after remove_file, and after remove_file_from_directory, has deleted
\* a file, every block of the block list the metadata store held for that
\* file is free in memory and in the bitmap on disk.
C15_FreeOnDelete ==
    [][/\ (/\ fs_last'.op = "remove_file"
           /\ fs_last'.kind = "Ok"
           /\ fs_last'.path \in DOMAIN metadata_store)
            => AllFree(metadata_store[fs_last'.path].block_indices,
                       free_blocks', disk')
       /\ (/\ fs_last'.op = "remove_file_from_directory"
           /\ fs_last'.kind = "Ok")
            => LET registered ==
                      trim_end_matches_slash(current_directory.name)
                          \o <<"/">> \o fs_last'.path
               IN  registered \in DOMAIN metadata_store
                     => AllFree(metadata_store[registered].block_indices,
                                free_blocks', disk')]_vars

\* the first 4 bytes are the signature and the bitmap region holds a flag
\* byte (1 or 0) for every block
Formatted(d) ==
    /\ Len(d) >= BITMAP_OFFSET + TOTAL_BLOCKS
    /\ SubSeq(d, 1, 4) = to_le_bytes(MAGIC_HI, MAGIC_LO)
    /\ \A i \in 0..(TOTAL_BLOCKS - 1) : d[BITMAP_OFFSET + i + 1] \in {0, 1}

\* C21: whenever initialize returns successfully the file is formatted:
\* signature in the first 4 bytes, bitmap region written, whatever the file
\* at the path held before, a file left by a failed initialize included.
C21_NoPartialFormat ==
    [][(last'.op = "initialize" /\ last'.kind = "Ok") => Formatted(disk')]_vars

\* C22: save_free_blocks writes byte 1 for a free flag and byte 0 for an
\* occupied one at offset 4 + i; load_free_blocks reads byte 1 as free and
\* every other byte as occupied; loading right after saving a vector of
\* length TOTAL_BLOCKS returns that vector.
C22_BitmapEncoding ==
    [][/\ last'.op = "save_free_blocks"
          => \A i \in ValidIndices :
                disk'[4 + i + 1] = (IF last'.data[i + 1] THEN 1 ELSE 0)
       /\ (last'.op = "load_free_blocks" /\ last'.kind = "Ok")
          => \A i \in ValidIndices :
                last'.value[i + 1] = (disk[4 + i + 1] = 1)
       /\ (last.op = "save_free_blocks" /\ last'.op = "load_free_blocks")
          => last'.value = last.data]_vars

\* a bitmap holding a byte that is neither 0 nor 1, and a 1, was loaded
C22_Witness ==
    /\ last.op = "load_free_blocks"
    /\ last.kind = "Ok"
    /\ \E i \in ValidIndices : disk[4 + i + 1] \notin {0, 1}
    /\ \E i \in ValidIndices : disk[4 + i + 1] = 1

\* the bytes of the data region: everything after the header and the bitmap
DataRegion(d) == SubSeq(d, 4 + TOTAL_BLOCKS + 1, Len(d))

\* C23: format run on a file that was just formatted leaves the content as
\* it is, and every run of format on a file of the right size leaves the
\* length and the data region as they are.
C23_FormatIdempotent ==
    [][last'.op = "format"
        => /\ Len(disk') = Len(disk)
           /\ DataRegion(disk') = DataRegion(disk)
           /\ seen'.formats = 2 => disk' = disk]_vars

\* format ran twice in a row on a file whose data region is not empty
C23_Witness ==
    /\ last.op = "format"
    /\ seen.formats = 2
    /\ \E k \in 1..Len(DataRegion(disk)) : DataRegion(disk)[k] # 0

\* why a call failed, read off its operation and arguments: in Spec
\* allocate_block fails only on exhaustion, and read_block with a valid index
\* and initialize fail only when the file operation does
FailureCause(c) ==
    IF c.kind = "Ok" THEN "none"
    ELSE IF c.op \in {"free_block", "write_block", "read_block"}
            /\ c.index >= TOTAL_BLOCKS THEN "InvalidBlockIndex"
    ELSE IF c.op = "write_block" /\ Len(c.data) > BLOCK_SIZE THEN "DataTooLarge"
    ELSE IF c.op = "allocate_block" THEN "NoFreeBlocks"
    ELSE "IoError"

\* C24: an out-of-range index, an oversized payload, exhaustion and a failed
\* file operation are each reported with an error kind of their own: two
\* calls in a row that fail for different reasons return different kinds.
C24_TypedFailures ==
    [][(/\ FailureCause(last) # "none"
        /\ FailureCause(last') # "none"
        /\ FailureCause(last) # FailureCause(last'))
        => last.kind # last'.kind]_vars

\* C25: on a store that initialize has just created and formatted, with
\* allocate_block calls only, the k-th successful one returns k - 1; after
\* TOTAL_BLOCKS - 1 of them (0 .. TOTAL_BLOCKS - 2) and free_block(1), the
\* next allocate_block returns 1, the one after it TOTAL_BLOCKS - 1, and the
\* one after that the no-free-blocks error.
C25_AllocationOrder ==
    /\ (seen.fresh >= 2 /\ last.op = "allocate_block" /\ last.kind = "Ok")
          => last.value = <<seen.fresh - 2>>
    /\ seen.script = 2 => (last.kind = "Ok" /\ last.value = <<1>>)
    /\ seen.script = 3 => (last.kind = "Ok" /\ last.value = <<TOTAL_BLOCKS - 1>>)
    /\ seen.script = 4
          => (last.kind = "Other" /\ last.msg = "No free blocks available")

\* the whole sequence was run: allocations, free_block(1), three more calls
C25_Witness ==
    /\ seen.script = 4
    /\ last.op = "allocate_block"
    /\ \A k \in 1..Len(free_blocks) : ~free_blocks[k]

\* C26: after every successful write_to_file(path, data), the first to the
\* file or a later one, the size in the metadata entry the call stored
\* equals the number of bytes of data.
C26_SizeIsDataLength ==
    [][(fs_last'.op = "write_to_file" /\ fs_last'.kind = "Ok")
        => /\ fs_last'.path \in DOMAIN metadata_store'
           /\ metadata_store'[fs_last'.path].size = Len(fs_last'.data)]_vars

\* C27: read_file(path) called right after a successful
\* write_to_file(path, data), the first write of the file or a later one,
\* returns exactly data.
C27_ContentRoundTrip ==
    [][(/\ fs_last.op = "write_to_file"
        /\ fs_last.kind = "Ok"
        /\ fs_last'.op = "read_file"
        /\ fs_last'.path = fs_last.path)
        => (fs_last'.kind = "Ok" /\ fs_last'.data = fs_last.data)]_vars

\* byte k of block index in the file, -1 where the file has ended
BlockByte(d, index, k) ==
    IF BlockOffset(index) + k <= Len(d) THEN d[BlockOffset(index) + k] ELSE -1

\* the blocks whose bytes differ between two contents of the file
BlocksChanged(d, e) ==
    {i \in ValidIndices : \E k \in 1..BLOCK_SIZE : BlockByte(d, i, k) # BlockByte(e, i, k)}

\* the block lists of the entries that belong to a file other than file_path
ListedByOthers(store, file_path) ==
    UNION {{store[key].block_indices[k] : k \in 1..Len(store[key].block_indices)} :
              key \in {x \in DOMAIN store : store[x].path # file_path}}

\* C28: write_to_file writes into no block but the ones it has allocated in
\* the same call, so every block it writes is occupied, and none of them is
\* in the block list of an entry of another file.
C28_AllocateBeforeWrite ==
    [][(fs_last'.op = "write_to_file"
        /\ resolve_path(current_directory, fs_last'.path) \in DOMAIN metadata_store)
        => LET written == BlocksChanged(disk, disk')
               file_path ==
                   metadata_store[resolve_path(current_directory, fs_last'.path)].path
           IN  /\ written \subseteq NewlyOccupied(free_blocks, free_blocks')
               /\ \A i \in written : ~free_blocks'[i + 1]
               /\ written \cap ListedByOthers(metadata_store, file_path) = {}]_vars

\* names and a FileMetadata value given to the MetadataStore methods
StoreNames == FilePaths \cup {<<"/", "b">>}

SampleMetadata == create_file_metadata(<<"b">>, <<"/">>, <<"r">>, 5)

\* C29: on every store, get_file_metadata(name) after add_file(name, m)
\* returns m and after remove_file_metadata(name) returns none, and both
\* leave what get_file_metadata returns for every other name as it was.
C29_MapSemantics ==
    \A name \in StoreNames :
        LET added == add_file(metadata_store, name, SampleMetadata)
            removed == remove_file_metadata(metadata_store, name)
        IN  /\ get_file_metadata(added, name) = Some(SampleMetadata)
            /\ get_file_metadata(removed, name) = None
            /\ \A other \in StoreNames \ {name} :
                  /\ get_file_metadata(added, other)
                        = get_file_metadata(metadata_store, other)
                  /\ get_file_metadata(removed, other)
                        = get_file_metadata(metadata_store, other)

\* remove_file has taken an entry out of a store that holds another one
C29_Witness ==
    /\ fs_last.op = "remove_file"
    /\ fs_last.kind = "Ok"
    /\ fs_last.path \notin DOMAIN metadata_store
    /\ DOMAIN metadata_store # {}

\* directory names: the root, a plain name, names with trailing slashes
SampleDirectoryNames == {<<"/">>, <<"d">>, <<"d", "/">>, <<"/", "d", "/", "/">>}

\* path is directory_name without its trailing slashes, then "/", then name
IsFilePath(path, directory_name, name) ==
    \E n \in 0..Len(directory_name) :
        /\ \A k \in (n + 1)..Len(directory_name) : directory_name[k] = "/"
        /\ n > 0 => directory_name[n] # "/"
        /\ path = SubSeq(directory_name, 1, n) \o <<"/">> \o name

C32_AllocatorFrame ==
    [][/\ (last'.op = "allocate_block" /\ last'.kind = "Ok")
            => LET index == last'.value[1] IN
               /\ Len(free_blocks') = Len(free_blocks)
               /\ free_blocks[index + 1]
               /\ ~free_blocks'[index + 1]
               /\ \A j \in ValidIndices :
                     j # index => free_blocks'[j + 1] = free_blocks[j + 1]
               /\ Cardinality(FreeIn(free_blocks'))
                     = Cardinality(FreeIn(free_blocks)) - 1
               /\ DataRegion(disk') = DataRegion(disk)
       /\ (last'.op = "free_block" /\ last'.kind = "Ok")
            => /\ Len(free_blocks') = Len(free_blocks)
               /\ \A j \in ValidIndices :
                     j # last'.index => free_blocks'[j + 1] = free_blocks[j + 1]
               /\ DataRegion(disk') = DataRegion(disk)]_vars

\* free_block has just freed an index below the last one while a higher
\* index stays occupied and the data region holds written bytes
C32_Witness ==
    /\ last.op = "free_block"
    /\ last.kind = "Ok"
    /\ last.index < TOTAL_BLOCKS - 1
    /\ free_blocks[last.index + 1]
    /\ ~free_blocks[last.index + 2]
    /\ \E k \in 1..Len(DataRegion(disk)) : DataRegion(disk)[k] # 0


\* the indices of a block list, as a set
ListedIn(block_indices) == {block_indices[k] : k \in 1..Len(block_indices)}

\* C33: no block index is in the block lists of two entries of the metadata
\* store, none is twice in one list, and every index in the list of an entry
\* is marked occupied.
C33_NoAliasing ==
    /\ \A p \in DOMAIN metadata_store, q \in DOMAIN metadata_store :
          p # q => ListedIn(metadata_store[p].block_indices)
                     \cap ListedIn(metadata_store[q].block_indices) = {}
    /\ \A p \in DOMAIN metadata_store :
          LET block_indices == metadata_store[p].block_indices IN
          /\ Cardinality(ListedIn(block_indices)) = Len(block_indices)
          /\ \A i \in ListedIn(block_indices) :
                i + 1 \in DOMAIN free_blocks /\ ~free_blocks[i + 1]


\* C34: after any sequence of file operations that all completed
\* successfully, every block marked occupied is in the block list of some
\* entry of the metadata store.
C34_NoLeakedBlocks ==
    \A i \in ValidIndices :
       (i + 1 \in DOMAIN free_blocks /\ ~free_blocks[i + 1])
          => \E p \in DOMAIN metadata_store :
                i \in ListedIn(metadata_store[p].block_indices)


\* C35: write_to_file with n bytes for a file the store knows, while at
\* least ceil(n / BLOCK_SIZE) blocks are free, succeeds, turns exactly that
\* many flags from free to occupied (none for n = 0), appends their indices
\* to the block list it found in the order allocate_block hands them out
\* (lowest free index first), and puts BLOCK_SIZE bytes of the data into
\* each of them except the last, which gets the remaining
\* n - (k - 1) * BLOCK_SIZE bytes and keeps the rest of its old content.
C35_ChunkCount ==
    [][(/\ fs_last'.op = "write_to_file"
        /\ resolve_path(current_directory, fs_last'.path) \in DOMAIN metadata_store
        /\ Cardinality(FreeIn(free_blocks)) >= Chunks(Len(fs_last'.data)))
        => LET data == fs_last'.data
               n    == Len(data)
               k    == Chunks(n)
               old  == metadata_store[resolve_path(current_directory,
                                                   fs_last'.path)].block_indices
               new  == metadata_store'[fs_last'.path].block_indices
               L    == Len(old)
           IN  /\ fs_last'.kind = "Ok"
               /\ Cardinality(NewlyOccupied(free_blocks, free_blocks')) = k
               /\ FreeIn(free_blocks')
                     = FreeIn(free_blocks) \ NewlyOccupied(free_blocks, free_blocks')
               /\ Len(new) = L + k
               /\ SubSeq(new, 1, L) = old
               /\ NewlyOccupied(free_blocks, free_blocks')
                     = {new[L + j] : j \in 1..k}
               /\ \A j \in 1..k :
                     \A i \in FreeIn(free_blocks) :
                        i < new[L + j] => \E m \in 1..(j - 1) : new[L + m] = i
               /\ \A j \in 1..k :
                     LET off == BlockOffset(new[L + j])
                         len == IF j < k THEN BLOCK_SIZE
                                         ELSE n - (k - 1) * BLOCK_SIZE
                     IN  /\ \A m \in 1..len :
                               disk'[off + m] = data[(j - 1) * BLOCK_SIZE + m]
                         /\ \A m \in (len + 1)..BLOCK_SIZE :
                               off + m <= Len(disk)
                                  => disk'[off + m] = disk[off + m]]_vars

\* write_to_file has stored a block and one byte of data in two blocks, the
\* first of which is not block 0 because another file holds that one
C35_Witness ==
    /\ fs_last.op = "write_to_file"
    /\ fs_last.kind = "Ok"
    /\ Len(fs_last.data) = BLOCK_SIZE + 1
    /\ fs_last.path \in DOMAIN metadata_store
    /\ LET block_indices == metadata_store[fs_last.path].block_indices IN
       /\ Len(block_indices) = 2
       /\ block_indices[1] > 0


\* C36: after a successful write_to_file(path, data) the entry under
\* resolve_path(current_directory, path) has the new size and lists the
\* blocks the call allocated, and every other key of the metadata store
\* was there before with the same entry; no key is lost.
C36_WriteUpdatesResolvedEntry ==
    [][(fs_last'.op = "write_to_file" /\ fs_last'.kind = "Ok")
        => LET resolved_path == resolve_path(current_directory, fs_last'.path) IN
           /\ resolved_path \in DOMAIN metadata_store'
           /\ metadata_store'[resolved_path].size = Len(fs_last'.data)
           /\ NewlyOccupied(free_blocks, free_blocks')
                 \subseteq ListedIn(metadata_store'[resolved_path].block_indices)
           /\ DOMAIN metadata_store \subseteq DOMAIN metadata_store'
           /\ \A key \in DOMAIN metadata_store' \ {resolved_path} :
                 /\ key \in DOMAIN metadata_store
                 /\ metadata_store'[key] = metadata_store[key]]_vars


\* the path create_file_in_directory registers a file of the current
\* directory under in the metadata store
RegisteredPath(file_name) ==
    create_file_metadata(file_name, current_directory.name, <<>>, 0).path

\* C37: a successful remove_file_from_directory(name) leaves name absent
\* from the files of the directory and the metadata store without an entry
\* under the path create_file_in_directory registered the file under; when
\* name is not in the files of the directory the call returns NotFound and
\* leaves the directory and the store as they were.
C37_CreateRemoveConsistency ==
    [][fs_last'.op = "remove_file_from_directory"
        => IF fs_last'.path \in DOMAIN current_directory.files
           THEN /\ fs_last'.kind = "Ok"
                /\ fs_last'.path \notin DOMAIN current_directory'.files
                /\ RegisteredPath(fs_last'.path) \notin DOMAIN metadata_store'
           ELSE /\ fs_last'.kind = "NotFound"
                /\ current_directory' = current_directory
                /\ metadata_store' = metadata_store]_vars


\* C31: create_directory(name, parent) on a parent without a subdirectory
\* called name succeeds and the parent then has an empty subdirectory under
\* name next to the ones it had; on a parent that has one it returns
\* AlreadyExists and the hierarchy, the existing subdirectory and what is in
\* it included, stays as it was.
C31_CreateDirectory ==
    [][fs_last'.op = "create_directory"
        => LET name    == fs_last'.path
               before  == directory_at(root_directory, fs_last'.data)
               after   == directory_at(root_directory', fs_last'.data)
           IN  IF name \notin DOMAIN before.subdirectories
               THEN /\ fs_last'.kind = "Ok"
                    /\ DOMAIN after.subdirectories
                          = DOMAIN before.subdirectories \cup {name}
                    /\ after.subdirectories[name].name = name
                    /\ after.subdirectories[name].files = <<>>
                    /\ after.subdirectories[name].subdirectories = <<>>
                    /\ \A other \in DOMAIN before.subdirectories :
                          after.subdirectories[other] = before.subdirectories[other]
                    /\ after.files = before.files
               ELSE /\ fs_last'.kind = "AlreadyExists"
                    /\ root_directory' = root_directory]_vars

\* create_directory was refused for a name whose directory has a
\* subdirectory of its own
C31_Witness ==
    /\ fs_last.op = "create_directory"
    /\ fs_last.kind = "AlreadyExists"
    /\ directory_at(root_directory, fs_last.data)
          .subdirectories[fs_last.path].subdirectories # <<>>


\* the absolute path '/d1/.../dn' of a sequence of directory names
RECURSIVE absolute_path(_)
absolute_path(names) ==
    IF names = <<>>
    THEN <<>>
    ELSE <<"/">> \o Head(names) \o absolute_path(Tail(names))

\* C38: change_directory with the path '/' succeeds and makes the root the
\* current directory; with an absolute path '/d1/.../dn' that names a chain
\* of subdirectories from the root it succeeds and makes dn the current
\* directory; whenever it returns an error the current directory is what it
\* was.
C38_ChangeDirectory ==
    [][fs_last'.op = "change_directory"
        => /\ fs_last'.path = <<"/">>
                => /\ fs_last'.kind = "Ok"
                   /\ current_directory' = root_directory
           /\ \A names \in UNION {[1..n -> DirNames] : n \in 1..MaxDepth} :
                 (/\ fs_last'.path = absolute_path(names)
                  /\ is_location(root_directory, names))
                    => /\ fs_last'.kind = "Ok"
                       /\ current_directory' = directory_at(root_directory, names)
           /\ fs_last'.kind # "Ok"
                => current_directory' = current_directory]_vars


\* a directory called name is somewhere below `directory`
RECURSIVE has_directory(_, _)
has_directory(directory, name) ==
    \/ name \in DOMAIN directory.subdirectories
    \/ \E sub \in DOMAIN directory.subdirectories :
          has_directory(directory.subdirectories[sub], name)

\* a file called file_name is in `directory` or somewhere below it
RECURSIVE has_file(_, _)
has_file(directory, file_name) ==
    \/ file_name \in DOMAIN directory.files
    \/ \E sub \in DOMAIN directory.subdirectories :
          has_file(directory.subdirectories[sub], file_name)

\* current_directory.json holds the root directory
AtRoot == current_directory_json # None /\ current_directory_json[1].name = <<"/">>

\* C39: over the runs of the binary the hierarchy saved in filesystem.json
\* and the directory saved in current_directory.json agree: after a
\* successful mkdir or create the new directory or file is in the saved
\* hierarchy; 'cd /' keeps the subdirectories and files the current
\* directory had when it was the root; rmdir of an empty subdirectory made
\* by mkdir at the root succeeds.
C39_PersistedConsistency ==
    [][/\ (fs_last'.op = "mkdir" /\ fs_last'.kind = "Ok")
            => has_directory(filesystem_json'[1].root_directory, fs_last'.path)
       /\ (fs_last'.op = "create" /\ fs_last'.kind = "Ok")
            => has_file(filesystem_json'[1].root_directory, fs_last'.path)
       /\ (fs_last'.op = "cd" /\ fs_last'.path = <<"/">> /\ AtRoot)
            => /\ DOMAIN current_directory_json[1].subdirectories
                     \subseteq DOMAIN current_directory_json'[1].subdirectories
               /\ DOMAIN current_directory_json[1].files
                     \subseteq DOMAIN current_directory_json'[1].files
       /\ (/\ fs_last'.op = "rmdir"
           /\ AtRoot
           /\ fs_last'.path \in DOMAIN current_directory_json[1].subdirectories
           /\ current_directory_json[1].subdirectories[fs_last'.path]
                 = new_directory(fs_last'.path))
            => fs_last'.kind = "Ok"]_vars

====
